---- MODULE Spec2Model ----
(***************************************************************************)
(* pg-stat-dump: the collection loop of src/main.rs (connect, fetch with   *)
(* one reconnect-and-retry, render, write, uptime check, shutdown poll,    *)
(* close, finish) together with the ctrl-c handler of expect_ctrl_c, and   *)
(* the pure functions render / auto / clean_ws they use.                   *)
(*                                                                         *)
(* Strings are sequences of one-character strings.  The character "U"      *)
(* stands for a scalar value whose UTF-8 encoding takes two bytes, so that *)
(* str::len (bytes) and the width of format! (characters) differ as they   *)
(* do in Rust.  Time is counted in whole units of the configured           *)
(* durations.                                                              *)
(***************************************************************************)
EXTENDS Integers, Sequences, FiniteSets, TLC

VARIABLES
    pc,            \* position of the main thread in main()
    cfg,           \* Config: poll_interval, max_uptime
    conn,          \* the Pg handle main owns (id 0: none / moved out)
    nconn,         \* number of handles established so far
    closedIds,     \* ids of the handles attempt_close has been called on
    elapsed,       \* started_time.elapsed(), saturating above max_uptime
    outOpened,     \* open() has returned the encoder
    outPending,    \* blocks write_all accepted that are not flushed yet, in order
    outFlushed,    \* number of blocks flushed to the file
    finishCalls,   \* number of calls of do_finish
    trailer,       \* the zstd trailer has been written
    mins,          \* the width array of main
    lines,         \* the value bound to `lines` in the loop body
    buf,           \* the value bound to `buf` in the loop body
    installed,     \* ctrlc::set_handler has installed the closure
    chan,          \* notifications pending in the sync_channel(1)
    rxAlive,       \* the Receiver shutdown_requested has not been dropped
    interrupts,    \* interrupts handled so far by the closure
    cyc,           \* per-iteration counts: fetch calls, connect calls, retry log lines
    logs,          \* diagnostics written to stderr, counted per kind
    loopExit,      \* how the loop was left: "none", "uptime", "shutdown"
    result,        \* how main ended: "none", "ok", "err", "panic"
    errCtx,        \* the context of the error or panic main ended with
    dbReply,       \* the rows the server returned to the latest query of the iteration
    exitCode,      \* process exit status, -1 while the process runs
    closeOutcome,  \* what the attempt_close that has just returned did, else "none"
    fetchNo,       \* number of fetches that have returned Ok so far
    outOrder       \* for each block flushed, in file order, the fetch it renders

vars == <<pc, cfg, conn, nconn, closedIds, elapsed, outOpened, outPending,
          outFlushed, finishCalls, trailer, mins, lines, buf, installed, chan,
          rxAlive, interrupts, cyc, logs, loopExit, result, errCtx, dbReply,
          exitCode, closeOutcome, fetchNo, outOrder>>

\* ------------------------------------------------------------------ bounds

MaxRows == 1          \* rows a query returns, the header not counted
MaxInterrupts == 3    \* interrupts delivered in one run
MaxUptime == 2        \* largest configured max_uptime, in time units

PollIntervals == {1, 2}

\* ------------------------------------------------------- strings, options

None == [tag |-> "None"]

Some(v) == [tag |-> "Some", v |-> v]

Min(a, b) == IF a < b THEN a ELSE b

Max(a, b) == IF a > b THEN a ELSE b

\* bytes of one character in UTF-8
Utf8Len(c) == IF c = "U" THEN 2 ELSE 1

RECURSIVE StrLen(_)
\* str::len / String::len: the length in bytes
StrLen(s) == IF s = <<>> THEN 0 ELSE Utf8Len(Head(s)) + StrLen(Tail(s))

\* number of characters, what the width of format! counts
CharCount(s) == Len(s)

Spaces(n) == [i \in 1..n |-> " "]

\* the padding is computed from the length in bytes
FormatWidthInBytes(col, width) ==
    IF StrLen(col) >= width THEN col
    ELSE col \o Spaces(width - StrLen(col))

\* format!("{:1$}", col, width): left-aligned, padded with spaces to `width`
\* characters, never truncated
FormatWidth(col, width) ==
    IF CharCount(col) >= width THEN col
    ELSE col \o Spaces(width - CharCount(col))

IsWs(c) == c \in {" ", "\t", "\n"}

RECURSIVE CleanWsFrom(_, _)
CleanWsFrom(s, inRun) ==
    IF s = <<>> THEN <<>>
    ELSE IF IsWs(Head(s))
         THEN (IF inRun THEN <<>> ELSE <<" ">>) \o CleanWsFrom(Tail(s), TRUE)
         ELSE <<Head(s)>> \o CleanWsFrom(Tail(s), FALSE)

\* clean_ws: every run of whitespace becomes one space
clean_ws(s) == CleanWsFrom(s, FALSE)

Digit(d) == CASE d = 0 -> "0" [] d = 1 -> "1" [] d = 2 -> "2" [] d = 3 -> "3"
              [] d = 4 -> "4" [] d = 5 -> "5" [] d = 6 -> "6" [] d = 7 -> "7"
              [] d = 8 -> "8" [] d = 9 -> "9"

RECURSIVE Decimal(_)
Decimal(n) == IF n < 10 THEN <<Digit(n)>>
              ELSE Decimal(n \div 10) \o <<Digit(n % 10)>>

\* ToString::to_string of an Oid / i32 (kind "int") or of a String (kind "str")
to_string(kind, v) ==
    IF kind = "int"
    THEN (IF v < 0 THEN <<"-">> \o Decimal(-v) ELSE Decimal(v))
    ELSE v

\* auto: None is the empty string, Some(v) is clean_ws(v.to_string())
auto(kind, o) ==
    IF o.tag = "None" THEN <<>> ELSE clean_ws(to_string(kind, o.v))

ZeroPad(n, w) ==
    LET d == Decimal(n)
    IN IF Len(d) >= w THEN d ELSE [i \in 1..(w - Len(d)) |-> "0"] \o d

\* ts: RFC 3339 with microseconds and a "Z" suffix; a DateTime<Utc> is the
\* record of its fields
ts(t) ==
    ZeroPad(t.y, 4) \o <<"-">> \o ZeroPad(t.mo, 2) \o <<"-">> \o ZeroPad(t.d, 2)
    \o <<"T">> \o ZeroPad(t.h, 2) \o <<":">> \o ZeroPad(t.mi, 2) \o <<":">>
    \o ZeroPad(t.s, 2) \o <<".">> \o ZeroPad(t.us, 6) \o <<"Z">>

\* tso: v.map(ts).unwrap_or_default()
tso(o) == IF o.tag = "None" THEN <<>> ELSE ts(o.v)

\* ------------------------------------------------------------ the schema

\* three of the columns of the prepared query stand for its twenty
ColumnNames == << <<"p", "i", "d">>,
                  <<"s", "t", "a", "t", "e">>,
                  <<"q", "u", "e", "r", "y">> >>

NCols == Len(ColumnNames)

SupportedTypes == {"timestamptz", "oid", "name", "text", "varchar", "int4"}

\* the column types a server may report for the prepared statement
Schemas == { <<"int4", "text", "text">>, <<"int4", "bool", "text">> }

\* the rows a server may return, by the type of the second column
DbRows(schema) ==
    IF schema[2] = "text"
    THEN { <<Some(42), Some(<<"U", "U", "U">>), Some(<<"a", " ", "\t", "b">>)>>,
           <<Some(1234), None, None>> }
    ELSE { <<Some(42), Some(TRUE), None>> }

\* the arm of the match on column.type_().name() a column takes in fetch
ConvertCell(type, o) ==
    CASE type = "timestamptz" -> tso(o)
      [] type = "oid" -> auto("int", o)
      [] type \in {"name", "text", "varchar"} -> auto("str", o)
      [] type = "int4" -> auto("int", o)

ConvertRow(schema, row) == [i \in 1..Len(schema) |-> ConvertCell(schema[i], row[i])]

\* the `other => panic!` arm is taken: there is a row and a column of a type
\* outside the match
FetchPanics(schema, reply) ==
    Len(reply) > 0 /\ \E i \in 1..Len(schema) : schema[i] \notin SupportedTypes

\* the header line is not pushed
FetchLinesRowsOnly(schema, reply) ==
    [r \in 1..Len(reply) |-> ConvertRow(schema, reply[r])]

\* Ok(lines) of fetch: the header of column names, then one line per row
FetchLines(schema, reply) ==
    <<[i \in 1..Len(schema) |-> ColumnNames[i]]>>
    \o [r \in 1..Len(reply) |-> ConvertRow(schema, reply[r])]

RECURSIVE SeqsUpTo(_, _)
SeqsUpTo(S, n) ==
    IF n = 0 THEN {<<>>}
    ELSE LET shorter == SeqsUpTo(S, n - 1)
         IN shorter \cup {Append(q, x) : q \in {r \in shorter : Len(r) = n - 1}, x \in S}

\* the result sets a query may return
DbReplies(schema) == SeqsUpTo(DbRows(schema), MaxRows)

\* ---------------------------------------------------------------- render

\* the width is overwritten by the length of the column without comparing
UpdateLineOverwrites(line, m) ==
    [i \in 1..Len(m) |-> IF i <= Len(line) THEN StrLen(line[i]) ELSE m[i]]

\* the columns are measured in characters, as format! counts them
UpdateLineCountsChars(line, m) ==
    [i \in 1..Len(m) |->
        IF i <= Len(line) /\ CharCount(line[i]) > m[i] THEN CharCount(line[i]) ELSE m[i]]

\* one pass of the inner loop of lines 80-86 over a line: zip stops at the
\* shorter of the line and the width array
UpdateLine(line, m) ==
    [i \in 1..Len(m) |->
        IF i <= Len(line) /\ StrLen(line[i]) > m[i] THEN StrLen(line[i]) ELSE m[i]]

RECURSIVE UpdateMins(_, _)
\* the first loop of render: the widths after every line has been measured
UpdateMins(ls, m) ==
    IF ls = <<>> THEN m ELSE UpdateMins(Tail(ls), UpdateLine(Head(ls), m))

RECURSIVE Concat(_)
Concat(ss) == IF ss = <<>> THEN <<>> ELSE Head(ss) \o Concat(Tail(ss))

\* the padded columns of one line: zip(line, mins).take(last)
PaddedCols(line, m) ==
    [i \in 1..Min(Len(line), Len(m) - 1) |-> FormatWidth(line[i], m[i] + 3)]

\* one iteration of the second loop of render (lines 89-96)
RenderLine(line, m) ==
    Concat(PaddedCols(line, m)) \o line[Len(m)] \o <<"\n">>

\* `mins.len() - 1` underflows or `line[last]` is out of range
RenderPanics(ls, m) ==
    Len(ls) > 0 /\ (Len(m) = 0 \/ \E k \in 1..Len(ls) : Len(ls[k]) < Len(m))

\* the String render returns, given the widths after the first loop
RenderBuf(ls, m) == Concat([k \in 1..Len(ls) |-> RenderLine(ls[k], m)])

\* ------------------------------------------------------------ the state

NoConn == [id |-> 0, schema |-> <<>>, closed |-> FALSE]

NoLogs == [closeErr |-> 0, started |-> 0, dying |-> 0, cleanExit |-> 0]

NewCycle == [fetches |-> 0, connects |-> 0, retryLogs |-> 0]

Configs == [poll_interval : PollIntervals, max_uptime : 1..MaxUptime]

Init ==
    /\ pc = "connect"
    /\ cfg \in Configs
    /\ conn = NoConn
    /\ nconn = 0
    /\ closedIds = {}
    /\ elapsed = 0
    /\ outOpened = FALSE
    /\ outPending = <<>>
    /\ outFlushed = 0
    /\ finishCalls = 0
    /\ trailer = FALSE
    /\ mins = <<>>
    /\ lines = <<>>
    /\ buf = <<>>
    /\ installed = FALSE
    /\ chan = 0
    /\ rxAlive = FALSE
    /\ interrupts = 0
    /\ cyc = NewCycle
    /\ logs = NoLogs
    /\ loopExit = "none"
    /\ result = "none"
    /\ errCtx = "none"
    /\ dbReply = <<>>
    /\ exitCode = -1
    /\ closeOutcome = "none"
    /\ fetchNo = 0
    /\ outOrder = <<>>

\* main leaves through `?` or a panic: its locals are dropped (the handle
\* without attempt_close, the encoder without do_finish, the Receiver)
Unwind(how, ctx) ==
    /\ pc' = "returned"
    /\ result' = how
    /\ errCtx' = ctx
    /\ dbReply' = <<>>
    /\ conn' = NoConn
    /\ rxAlive' = FALSE
    /\ lines' = <<>>
    /\ buf' = <<>>

\* what connect can return: Err, or Ok with the columns the server reports
ConnectResults == {[ok |-> FALSE, schema |-> <<>>]} \cup {[ok |-> TRUE, schema |-> s] : s \in Schemas}

\* what the query of fetch can return: Err, or Ok with the rows
QueryResults(schema) == {[ok |-> FALSE, rows |-> <<>>]} \cup {[ok |-> TRUE, rows |-> r] : r \in DbReplies(schema)}

\* line 179
Connect ==
    /\ pc = "connect"
    /\ \E r \in ConnectResults :
         IF r.ok
         THEN /\ conn' = [id |-> nconn + 1, schema |-> r.schema, closed |-> FALSE]
              /\ nconn' = nconn + 1
              /\ pc' = "open"
              /\ UNCHANGED <<result, errCtx, dbReply, rxAlive, lines, buf>>
         ELSE /\ Unwind("err", "connecting to database")
              /\ UNCHANGED nconn
    /\ UNCHANGED <<cfg, closeOutcome, fetchNo, outOrder, closedIds, elapsed, outOpened, outPending, outFlushed,
                   finishCalls, trailer, mins, installed, chan, interrupts, cyc,
                   logs, loopExit, exitCode>>

\* lines 181-184: started_time, open(), the zeroed width array
Open ==
    /\ pc = "open"
    /\ \/ /\ outOpened' = TRUE
          /\ mins' = [i \in 1..Len(conn.schema) |-> 0]
          /\ pc' = "install"
          /\ UNCHANGED <<result, errCtx, dbReply, conn, rxAlive, lines, buf>>
       \/ /\ Unwind("err", "open")
          /\ UNCHANGED <<outOpened, mins>>
    /\ UNCHANGED <<cfg, closeOutcome, fetchNo, outOrder, nconn, closedIds, elapsed, outPending, outFlushed,
                   finishCalls, trailer, installed, chan, interrupts, cyc, logs,
                   loopExit, exitCode>>

\* line 186 and lines 121-131: the channel and the handler
ExpectCtrlC ==
    /\ pc = "install"
    /\ \/ /\ installed' = TRUE
          /\ rxAlive' = TRUE
          /\ pc' = "fetch"
          /\ UNCHANGED <<result, errCtx, dbReply, conn, lines, buf>>
       \/ /\ Unwind("err", "set_handler")
          /\ UNCHANGED installed
    /\ UNCHANGED <<cfg, closeOutcome, fetchNo, outOrder, nconn, closedIds, elapsed, outOpened, outPending,
                   outFlushed, finishCalls, trailer, mins, chan, interrupts, cyc,
                   logs, loopExit, exitCode>>

\* the unknown type is reported as an error of fetch, which main recovers from
UnknownTypeAsFetchError ==
    /\ pc' = "retry_close"
    /\ UNCHANGED <<result, errCtx, dbReply, conn, rxAlive, lines, buf>>

\* line 69: the panic unwinds through fetch and main
UnknownType == Unwind("panic", "unknown type")

\* the value of the `match fetch(&mut conn)` of lines 189-197 when the first
\* fetch returned Ok(ls)
FirstFetchValue(ls) == ls

\* lines 189-192: the first fetch of an iteration and, on Err, the retry log
Fetch ==
    /\ pc = "fetch"
    /\ \E r \in QueryResults(conn.schema) :
         IF ~r.ok
         THEN /\ \E c \in BOOLEAN : conn' = [conn EXCEPT !.closed = c]
              /\ cyc' = [fetches |-> 1, connects |-> 0, retryLogs |-> 1]
              /\ pc' = "retry_close"
              /\ UNCHANGED <<result, errCtx, dbReply, rxAlive, lines, buf, fetchNo>>
         ELSE IF FetchPanics(conn.schema, r.rows)
         THEN /\ UnknownType
              /\ cyc' = [fetches |-> 1, connects |-> 0, retryLogs |-> 0]
              /\ UNCHANGED fetchNo
         ELSE /\ lines' = FirstFetchValue(FetchLines(conn.schema, r.rows))
              /\ dbReply' = r.rows
              /\ fetchNo' = fetchNo + 1
              /\ cyc' = [fetches |-> 1, connects |-> 0, retryLogs |-> 0]
              /\ pc' = "render"
              /\ UNCHANGED <<result, errCtx, conn, rxAlive, buf>>
    /\ UNCHANGED <<cfg, closeOutcome, outOrder, nconn, closedIds, elapsed, outOpened, outPending,
                   outFlushed, finishCalls, trailer, mins, installed, chan,
                   interrupts, logs, loopExit, exitCode>>

\* close is called without asking is_closed first
AttemptCloseUnchecked ==
    /\ closedIds' = closedIds \cup {conn.id}
    /\ conn' = NoConn
    /\ \E err \in BOOLEAN :
         /\ closeOutcome' = IF err THEN "error" ELSE "closed"
         /\ logs' = IF err THEN [logs EXCEPT !.closeErr = @ + 1] ELSE logs

\* attempt_close: nothing when the client is closed, else close, whose error
\* is logged; the handle is consumed either way
AttemptClose ==
    /\ closedIds' = closedIds \cup {conn.id}
    /\ conn' = NoConn
    /\ IF conn.closed
       THEN /\ closeOutcome' = "skipped"
            /\ UNCHANGED logs
       ELSE \E err \in BOOLEAN :
              /\ closeOutcome' = IF err THEN "error" ELSE "closed"
              /\ logs' = IF err THEN [logs EXCEPT !.closeErr = @ + 1] ELSE logs

\* the recovery arm connects again while it still holds the broken handle
RetryCloseSkipped ==
    /\ pc = "retry_close"
    /\ pc' = "reconnect"
    /\ UNCHANGED <<cfg, closeOutcome, fetchNo, outOrder, conn, nconn, closedIds, elapsed,
                   outOpened, outPending, outFlushed, finishCalls, trailer, mins, lines,
                   buf, installed, chan, rxAlive, interrupts, cyc, logs, loopExit, result,
                   errCtx, dbReply, exitCode>>

\* line 193
RetryClose ==
    /\ pc = "retry_close"
    /\ AttemptClose
    /\ pc' = "reconnect"
    /\ UNCHANGED <<cfg, fetchNo, outOrder, nconn, elapsed, outOpened, outPending, outFlushed,
                   finishCalls, trailer, mins, lines, buf, installed, chan,
                   rxAlive, interrupts, cyc, loopExit, result, errCtx, dbReply, exitCode>>

\* the first error of the reconnect is absorbed and connect is called again
ReconnectErrRetriesOnce ==
    IF cyc.connects = 0
    THEN /\ pc' = "reconnect"
         /\ UNCHANGED <<result, errCtx, dbReply, conn, rxAlive, lines, buf>>
    ELSE Unwind("err", "reconnecting after fetch error")

\* the `?` of line 194 on Err: the error leaves main
ReconnectErr == Unwind("err", "reconnecting after fetch error")

\* line 194
Reconnect ==
    /\ pc = "reconnect"
    /\ cyc' = [cyc EXCEPT !.connects = @ + 1]
    /\ closeOutcome' = "none"
    /\ \E r \in ConnectResults :
         IF r.ok
         THEN /\ conn' = [id |-> nconn + 1, schema |-> r.schema, closed |-> FALSE]
              /\ nconn' = nconn + 1
              /\ pc' = "refetch"
              /\ UNCHANGED <<result, errCtx, dbReply, rxAlive, lines, buf>>
         ELSE /\ ReconnectErr
              /\ UNCHANGED nconn
    /\ UNCHANGED <<cfg, fetchNo, outOrder, closedIds, elapsed, outOpened, outPending, outFlushed,
                   finishCalls, trailer, mins, installed, chan, interrupts, logs,
                   loopExit, exitCode>>

\* the recovery arm keeps the header and loses the rows of the retried fetch
RetryFetchHeaderOnly(ls) == <<Head(ls)>>

\* the value of the `match fetch(&mut conn)` of lines 189-197 when the
\* fetch after the reconnection returned Ok(ls)
RetryFetchValue(ls) == ls

\* a second recovery round after the retried fetch failed
RetryErrRetriesAgain ==
    IF cyc.fetches = 1
    THEN /\ pc' = "retry_close"
         /\ UNCHANGED <<result, errCtx, dbReply, conn, rxAlive, lines, buf>>
    ELSE Unwind("err", "fetch after reconnection")

\* the `?` of line 195 on Err: the error leaves main
RetryErr == Unwind("err", "fetch after reconnection")

\* line 195
FetchRetry ==
    /\ pc = "refetch"
    /\ cyc' = [cyc EXCEPT !.fetches = @ + 1]
    /\ \E r \in QueryResults(conn.schema) :
         IF ~r.ok
         THEN RetryErr /\ UNCHANGED fetchNo
         ELSE IF FetchPanics(conn.schema, r.rows)
         THEN UnknownType /\ UNCHANGED fetchNo
         ELSE /\ lines' = RetryFetchValue(FetchLines(conn.schema, r.rows))
              /\ dbReply' = r.rows
              /\ fetchNo' = fetchNo + 1
              /\ pc' = "render"
              /\ UNCHANGED <<result, errCtx, conn, rxAlive, buf>>
    /\ UNCHANGED <<cfg, closeOutcome, outOrder, nconn, closedIds, elapsed, outOpened, outPending,
                   outFlushed, finishCalls, trailer, mins, installed, chan,
                   interrupts, logs, loopExit, exitCode>>

\* line 199
Render ==
    /\ pc = "render"
    /\ IF RenderPanics(lines, mins)
       THEN /\ Unwind("panic", "index out of bounds")
            /\ UNCHANGED mins
       ELSE /\ mins' = UpdateMins(lines, mins)
            /\ buf' = RenderBuf(lines, mins')
            /\ pc' = "write"
            /\ UNCHANGED <<result, errCtx, dbReply, conn, rxAlive, lines>>
    /\ UNCHANGED <<cfg, closeOutcome, fetchNo, outOrder, nconn, closedIds, elapsed, outOpened, outPending,
                   outFlushed, finishCalls, trailer, installed, chan, interrupts,
                   cyc, logs, loopExit, exitCode>>

\* the buffer is handed to the encoder twice
WriteAllTwice ==
    /\ pc = "write"
    /\ \/ /\ outPending' = outPending \o <<buf, buf>>
          /\ pc' = "flush"
          /\ UNCHANGED <<result, errCtx, dbReply, conn, rxAlive, lines, buf>>
       \/ /\ Unwind("err", "compressing / writing")
          /\ UNCHANGED outPending
    /\ UNCHANGED <<cfg, closeOutcome, fetchNo, outOrder, nconn, closedIds, elapsed,
                   outOpened, outFlushed, finishCalls, trailer, mins, installed, chan,
                   interrupts, cyc, logs, loopExit, exitCode>>

\* lines 201-203
WriteAll ==
    /\ pc = "write"
    /\ \/ /\ outPending' = Append(outPending, buf)
          /\ pc' = "flush"
          /\ UNCHANGED <<result, errCtx, dbReply, conn, rxAlive, lines, buf>>
       \/ /\ Unwind("err", "compressing / writing")
          /\ UNCHANGED outPending
    /\ UNCHANGED <<cfg, closeOutcome, fetchNo, outOrder, nconn, closedIds, elapsed, outOpened, outFlushed,
                   finishCalls, trailer, mins, installed, chan, interrupts, cyc,
                   logs, loopExit, exitCode>>

\* lines 204-206; `lines` and `buf` are not read again in the iteration
Flush ==
    /\ pc = "flush"
    /\ \/ /\ outFlushed' = outFlushed + Len(outPending)
          /\ outOrder' = outOrder \o [k \in 1..Len(outPending) |-> fetchNo]
          /\ outPending' = <<>>
          /\ pc' = "uptime"
          /\ lines' = <<>>
          /\ buf' = <<>>
          /\ dbReply' = <<>>
          /\ UNCHANGED <<result, errCtx, conn, rxAlive>>
       \/ /\ Unwind("err", "flushing compressed data")
          /\ UNCHANGED <<outFlushed, outPending, outOrder>>
    /\ UNCHANGED <<cfg, closeOutcome, fetchNo, nconn, closedIds, elapsed, outOpened,
                   finishCalls, trailer, mins, installed, chan, interrupts, cyc,
                   logs, loopExit, exitCode>>

\* the comparison of the uptime check turned around
UptimeExceededReversed(e, max) == max > e

\* started_time.elapsed().gt(&cfg.max_uptime)
UptimeExceeded(e, max) == e > max

\* lines 208-210
UptimeCheck ==
    /\ pc = "uptime"
    /\ IF UptimeExceeded(elapsed, cfg.max_uptime)
       THEN /\ pc' = "close"
            /\ loopExit' = "uptime"
       ELSE /\ pc' = "wait"
            /\ UNCHANGED loopExit
    /\ UNCHANGED <<cfg, closeOutcome, fetchNo, outOrder, conn, nconn, closedIds, elapsed, outOpened, outPending,
                   outFlushed, finishCalls, trailer, mins, lines, buf, installed,
                   chan, rxAlive, interrupts, cyc, logs, result, errCtx, dbReply, exitCode>>

\* recv_timeout does not look at what is pending in the channel
RecvResultIgnoresPending(pending, senderAlive) ==
    IF ~senderAlive THEN "Disconnected"
    ELSE "Timeout"

\* recv_timeout on the channel: a pending notification is received at once,
\* a channel without sender is Disconnected, else the timeout runs out
RecvResult(pending, senderAlive) ==
    IF pending > 0 THEN "Ok"
    ELSE IF ~senderAlive THEN "Disconnected"
    ELSE "Timeout"

\* the SyncSender lives in the closure ctrlc keeps for the rest of the process
SenderAlive == installed

Saturate(t) == Min(t, cfg.max_uptime + 1)

\* a received notification does not leave the loop
LeavesLoopOnDisconnectOnly(r) == r = "Disconnected"

\* the arm of the match of lines 212-215 taken for a result of recv_timeout
LeavesLoop(r) == r \in {"Ok", "Disconnected"}

\* lines 212-215
RecvTimeout ==
    /\ pc = "wait"
    /\ LET r == RecvResult(chan, SenderAlive)
       IN /\ chan' = IF r = "Ok" THEN chan - 1 ELSE chan
          /\ elapsed' = IF r = "Timeout" THEN Saturate(elapsed + cfg.poll_interval)
                        ELSE elapsed
          /\ IF LeavesLoop(r)
             THEN /\ pc' = "close"
                  /\ loopExit' = "shutdown"
             ELSE /\ pc' = "fetch"
                  /\ UNCHANGED loopExit
    /\ UNCHANGED <<cfg, closeOutcome, fetchNo, outOrder, conn, nconn, closedIds, outOpened, outPending, outFlushed,
                   finishCalls, trailer, mins, lines, buf, installed, rxAlive,
                   interrupts, cyc, logs, result, errCtx, dbReply, exitCode>>

\* an error of close leaves main like the errors of the other calls
CloseOnExitErrFatal ==
    /\ pc = "close"
    /\ closedIds' = closedIds \cup {conn.id}
    /\ \E err \in BOOLEAN :
         IF err /\ ~conn.closed
         THEN /\ logs' = [logs EXCEPT !.closeErr = @ + 1]
              /\ closeOutcome' = "error"
              /\ Unwind("err", "error closing")
         ELSE /\ closeOutcome' = (IF conn.closed THEN "skipped" ELSE "closed")
              /\ conn' = NoConn
              /\ pc' = "finish"
              /\ UNCHANGED <<logs, result, errCtx, dbReply, rxAlive, lines, buf>>
    /\ UNCHANGED <<cfg, fetchNo, outOrder, nconn, elapsed, outOpened, outPending,
                   outFlushed, finishCalls, trailer, mins, installed, chan,
                   interrupts, cyc, loopExit, exitCode>>

\* the handle is not closed when the loop is left
CloseOnExitSkipped ==
    /\ pc = "close"
    /\ pc' = "finish"
    /\ UNCHANGED <<cfg, closeOutcome, fetchNo, outOrder, conn, nconn, closedIds, elapsed, outOpened, outPending,
                   outFlushed, finishCalls, trailer, mins, lines, buf, installed,
                   chan, rxAlive, interrupts, cyc, logs, loopExit, result, errCtx,
                   dbReply, exitCode>>

\* line 218
CloseOnExit ==
    /\ pc = "close"
    /\ AttemptClose
    /\ pc' = "finish"
    /\ UNCHANGED <<cfg, fetchNo, outOrder, nconn, elapsed, outOpened, outPending, outFlushed,
                   finishCalls, trailer, mins, lines, buf, installed, chan,
                   rxAlive, interrupts, cyc, loopExit, result, errCtx, dbReply, exitCode>>

\* lines 220-226: do_finish, the clean exit line, Ok(())
DoFinish ==
    /\ pc = "finish"
    /\ finishCalls' = finishCalls + 1
    /\ closeOutcome' = "none"
    /\ \/ /\ trailer' = TRUE
          /\ logs' = [logs EXCEPT !.cleanExit = @ + 1]
          /\ pc' = "returned"
          /\ result' = "ok"
          /\ rxAlive' = FALSE
          /\ UNCHANGED <<conn, lines, buf, errCtx, dbReply>>
       \/ /\ Unwind("err", "finalising output file during clean exit")
          /\ UNCHANGED <<trailer, logs>>
    /\ UNCHANGED <<cfg, fetchNo, outOrder, nconn, closedIds, elapsed, outOpened, outPending,
                   outFlushed, mins, installed, chan, interrupts, cyc, loopExit,
                   exitCode>>

\* the status the runtime exits with once main has returned or panicked
ExitStatus(how) == CASE how = "ok" -> 0 [] how = "err" -> 1 [] how = "panic" -> 101

ProcessExit ==
    /\ pc = "returned"
    /\ pc' = "exited"
    /\ exitCode' = ExitStatus(result)
    /\ UNCHANGED <<cfg, closeOutcome, fetchNo, outOrder, conn, nconn, closedIds, elapsed, outOpened, outPending,
                   outFlushed, finishCalls, trailer, mins, lines, buf, installed,
                   chan, rxAlive, interrupts, cyc, logs, loopExit, result, errCtx, dbReply>>

\* try_send on a channel without buffer, nobody waiting in recv
TrySendRendezvous(pending, receiverAlive) ==
    IF ~receiverAlive THEN "Disconnected"
    ELSE "Full"

\* try_send on the sync_channel(1)
TrySend(pending, receiverAlive) ==
    IF ~receiverAlive THEN "Disconnected"
    ELSE IF pending >= 1 THEN "Full"
    ELSE "Ok"

\* a full channel is not treated as a second exit request
HandlerDiesOnDisconnectOnly(r) == r = "Disconnected"

\* the arm of the match of lines 123-128 that calls std::process::exit(6)
HandlerDies(r) == r \in {"Full", "Disconnected"}

\* lines 123-128: the closure ctrlc runs on its own thread for an interrupt
Interrupt ==
    /\ installed
    /\ pc # "exited"
    /\ interrupts < MaxInterrupts
    /\ interrupts' = interrupts + 1
    /\ LET r == TrySend(chan, rxAlive)
       IN IF HandlerDies(r)
          THEN /\ logs' = [logs EXCEPT !.dying = @ + 1]
               /\ pc' = "exited"
               /\ exitCode' = 6
               /\ UNCHANGED chan
          ELSE /\ chan' = chan + 1
               /\ logs' = [logs EXCEPT !.started = @ + 1]
               /\ UNCHANGED <<pc, exitCode>>
    /\ UNCHANGED <<cfg, closeOutcome, fetchNo, outOrder, conn, nconn, closedIds, elapsed, outOpened, outPending,
                   outFlushed, finishCalls, trailer, mins, lines, buf, installed,
                   rxAlive, cyc, loopExit, result, errCtx, dbReply>>

\* time passes while the main thread is blocked in I/O
Tick ==
    /\ pc \in {"fetch", "refetch", "write"}
    /\ elapsed <= cfg.max_uptime
    /\ elapsed' = elapsed + 1
    /\ UNCHANGED <<pc, cfg, closeOutcome, fetchNo, outOrder, conn, nconn, closedIds, outOpened, outPending,
                   outFlushed, finishCalls, trailer, mins, lines, buf, installed,
                   chan, rxAlive, interrupts, cyc, logs, loopExit, result, errCtx, dbReply,
                   exitCode>>

MainStep ==
    \/ Connect \/ Open \/ ExpectCtrlC \/ Fetch \/ RetryClose \/ Reconnect
    \/ FetchRetry \/ Render \/ WriteAll \/ Flush \/ UptimeCheck \/ RecvTimeout
    \/ CloseOnExit \/ DoFinish \/ ProcessExit

Next == MainStep \/ Interrupt \/ Tick

Spec == Init /\ [][Next]_vars

\* every call of the main thread returns and the runtime exits after main
LiveSpec == Spec /\ WF_vars(MainStep)

\* ------------------------------------------------------------ properties

LoopBodyPcs == {"fetch", "retry_close", "reconnect", "refetch", "render", "write", "flush"}

RecoveryPcs == {"retry_close", "reconnect", "refetch"}

\* C1: on every exit after open() other than the forced exit (clean
\* shutdown, max-uptime, a second fetch failure, a failed reconnect, a
\* write or flush error) the trailer of the output stream has been written
\* when the process exits.
C1_FinalizedOnEveryExit ==
    ( /\ pc = "exited"
      /\ outOpened
      /\ exitCode # 6
      /\ \/ result = "ok"
         \/ errCtx \in {"fetch after reconnection", "reconnecting after fetch error",
                        "compressing / writing", "flushing compressed data"} )
    => trailer

\* C2 as stated: once the recovery of an iteration whose first fetch failed
\* is over, exactly one connect and exactly one further fetch were attempted
\* in it.
C2_OneConnectAndOneFetch ==
    (cyc.retryLogs = 1 /\ pc \notin RecoveryPcs \cup {"exited"})
    => (cyc.connects = 1 /\ cyc.fetches = 2)

\* C2 amended: after a fetch failure exactly one connect is attempted and,
\* only when it succeeds, exactly one further fetch; an error of the
\* reconnect or of the second fetch leaves main and no connect or fetch
\* follows it.
C2_SingleRetry ==
    /\ [](/\ cyc.connects <= 1
          /\ cyc.fetches <= 2
          /\ (cyc.fetches = 2 => cyc.connects = 1)
          /\ (cyc.connects = 1 => cyc.retryLogs = 1)
          /\ (cyc.retryLogs = 1 /\ pc \notin RecoveryPcs \cup {"exited"}
                => /\ cyc.connects = 1
                   /\ \/ cyc.fetches = 2
                      \/ cyc.fetches = 1 /\ errCtx = "reconnecting after fetch error")
          /\ (errCtx = "fetch after reconnection" => cyc.fetches = 2 /\ result = "err"))
    /\ [][result # "none" => cyc' = cyc /\ nconn' = nconn /\ result' = result]_vars

\* a second fetch failed and the error left main after one connect and two fetches
C2_Witness ==
    /\ pc = "exited"
    /\ exitCode = 1
    /\ errCtx = "fetch after reconnection"
    /\ cyc = [fetches |-> 2, connects |-> 1, retryLogs |-> 1]

\* C3 as stated: a run whose loop was left at the poll point ends with the
\* output finalized and exit code 0 (the forced exit aside).
C3_ShutdownExitsZero ==
    (pc = "exited" /\ loopExit = "shutdown" /\ exitCode # 6)
    => (exitCode = 0 /\ trailer)

\* C3 amended: the poll point takes one result of the channel; a pending
\* notification (or a channel without sender) leaves the loop, a timeout of
\* at most poll_interval starts the next iteration; once the loop is left
\* this way no fetch and no write is started, do_finish is called before
\* main returns, and the exit code is 0 exactly when do_finish succeeded
\* (the forced exit aside).
C3_PollPoint ==
    /\ [][pc = "wait" /\ pc' \notin {"wait", "exited"} =>
            IF chan > 0 \/ ~SenderAlive
            THEN /\ pc' = "close"
                 /\ loopExit' = "shutdown"
                 /\ chan' = 0
                 /\ elapsed' = elapsed
            ELSE /\ pc' = "fetch"
                 /\ loopExit' = "none"
                 /\ chan' = chan
                 /\ elapsed' - elapsed <= cfg.poll_interval]_vars
    /\ [][loopExit = "shutdown" =>
            /\ loopExit' = "shutdown"
            /\ pc' \notin LoopBodyPcs
            /\ cyc' = cyc
            /\ outPending' = outPending
            /\ outFlushed' = outFlushed]_vars
    /\ [](loopExit = "shutdown" /\ pc \in {"returned", "exited"} /\ exitCode # 6
            => /\ finishCalls = 1
               /\ trailer = (result = "ok")
               /\ (pc = "exited" => exitCode = IF trailer THEN 0 ELSE 1))

\* two blocks were written around a timeout, then a notification was
\* consumed and the process exited with code 0
C3_Witness ==
    /\ pc = "exited"
    /\ loopExit = "shutdown"
    /\ exitCode = 0
    /\ trailer
    /\ outFlushed = 2
    /\ interrupts = 1

\* C4: an interrupt handled while a notification is pending, or after the
\* Receiver was dropped, ends the process in that step with code 6; the
\* connection is not closed and the output stream is not finalized.
C4_SecondInterruptKills ==
    [][interrupts' = interrupts + 1 /\ (chan >= 1 \/ ~rxAlive) =>
          /\ pc' = "exited"
          /\ exitCode' = 6
          /\ logs'.dying = logs.dying + 1
          /\ conn' = conn
          /\ closedIds' = closedIds
          /\ finishCalls' = finishCalls
          /\ trailer' = trailer
          /\ outFlushed' = outFlushed]_vars

\* killed with the channel full, the handle open and the stream unfinished
C4_Witness ==
    /\ pc = "exited"
    /\ exitCode = 6
    /\ chan = 1
    /\ rxAlive
    /\ conn.id # 0
    /\ outOpened
    /\ ~trailer

\* C5 as stated: a run whose loop was left by the uptime check or the poll
\* point exits with code 0 (the forced exit aside).
C5_LoopExitExitsZero ==
    (pc = "exited" /\ loopExit # "none" /\ exitCode # 6) => exitCode = 0

\* C5 amended: after the loop is left, attempt_close is called on the
\* handle, then do_finish is called exactly once, then the process exits,
\* with code 0 when do_finish succeeded and code 1 when it failed (the
\* forced exit aside); no fetch and no write follows the loop.
C5_ExitSequence ==
    /\ [](/\ finishCalls <= 1
          /\ (finishCalls = 1 => loopExit # "none" /\ conn.id = 0 /\ nconn \in closedIds)
          /\ (loopExit # "none" /\ pc \in {"returned", "exited"} /\ exitCode # 6
                => /\ finishCalls = 1
                   /\ trailer = (result = "ok")
                   /\ logs.cleanExit = (IF result = "ok" THEN 1 ELSE 0)
                   /\ (pc = "exited" => exitCode = IF trailer THEN 0 ELSE 1)))
    /\ [][loopExit # "none" =>
            /\ loopExit' = loopExit
            /\ pc' \notin LoopBodyPcs
            /\ cyc' = cyc
            /\ outPending' = outPending
            /\ outFlushed' = outFlushed
            /\ (closedIds' # closedIds => pc = "close" /\ pc' = "finish")
            /\ (finishCalls' # finishCalls => pc = "finish")
            /\ (exitCode' = 0 => finishCalls = 1 /\ trailer)]_vars

\* the uptime check left the loop; the handle was closed, the stream
\* finalized and the process exited with code 0
C5_Witness ==
    /\ pc = "exited"
    /\ loopExit = "uptime"
    /\ exitCode = 0
    /\ trailer
    /\ finishCalls = 1
    /\ closedIds = {nconn}

\* C6: the uptime check follows every flushed block and precedes the wait;
\* when elapsed exceeds max_uptime it leaves the loop at once, without a
\* wait; and, every call returning, the process terminates: a run that was
\* never interrupted and ends cleanly has left the loop through the uptime
\* check with the maximum exceeded.
C6_UptimeCap ==
    /\ [][pc = "uptime" /\ pc' \notin {"uptime", "exited"} =>
            /\ elapsed' = elapsed
            /\ IF elapsed > cfg.max_uptime
               THEN pc' = "close" /\ loopExit' = "uptime"
               ELSE pc' = "wait" /\ loopExit' = "none"]_vars
    /\ [][pc' = "uptime" /\ pc # "uptime" =>
            pc = "flush" /\ outFlushed' = outFlushed + 1]_vars
    /\ [][pc' = "wait" /\ pc # "wait" => pc = "uptime"]_vars
    /\ [](pc = "exited" /\ interrupts = 0 /\ result = "ok"
            => loopExit = "uptime" /\ elapsed > cfg.max_uptime)
    /\ <>(pc = "exited")

\* a run without interrupt ended by the uptime check after two blocks
C6_Witness ==
    /\ pc = "exited"
    /\ exitCode = 0
    /\ interrupts = 0
    /\ loopExit = "uptime"
    /\ elapsed > cfg.max_uptime
    /\ outFlushed = 2

\* C7: no step of the run, a render call or a reconnect included, shortens
\* the width array or lowers one of its entries.
C7_WidthsNeverShrink ==
    [][mins # <<>> =>
          /\ Len(mins') = Len(mins)
          /\ \A i \in 1..Len(mins) : mins'[i] >= mins[i]]_vars

\* after a reconnect a snapshot whose pid is shorter than the tracked width
\* of 4 has been rendered
C7_Witness ==
    /\ pc = "write"
    /\ cyc.connects = 1
    /\ nconn = 2
    /\ mins[1] = 4
    /\ Len(lines) = 2
    /\ StrLen(lines[2][1]) < 4

\* C8: when the retried fetch succeeds main goes on to render, with one
\* retry line logged for the iteration and the new handle in place; the
\* lines rendered, the block handed to write_all and the block flushed are
\* those of the rows the retried fetch returned; a first fetch that fails,
\* in whatever iteration, enters the recovery and does not leave main.
C8_RetrySucceeds ==
    /\ [][pc = "refetch" /\ pc' = "render" =>
            /\ result' = "none"
            /\ exitCode' = -1
            /\ cyc' = [fetches |-> 2, connects |-> 1, retryLogs |-> 1]
            /\ conn' = conn
            /\ conn.id = nconn
            /\ ~conn.closed
            /\ conn.id \notin closedIds
            /\ lines' = FetchLines(conn.schema, dbReply')]_vars
    /\ [][pc = "render" /\ pc' = "write" =>
            /\ dbReply' = dbReply
            /\ mins' = UpdateMins(FetchLines(conn.schema, dbReply), mins)
            /\ buf' = RenderBuf(FetchLines(conn.schema, dbReply), mins')]_vars
    /\ [][pc = "write" /\ pc' = "flush" =>
            /\ buf = RenderBuf(FetchLines(conn.schema, dbReply), mins)
            /\ outPending' = <<buf>>]_vars
    /\ [][pc = "flush" /\ pc' = "uptime" =>
            /\ cyc' = cyc
            /\ outFlushed' = outFlushed + 1]_vars
    /\ [][pc = "fetch" /\ pc' \notin {"fetch", "exited"} =>
            /\ pc' \in {"render", "retry_close", "returned"}
            /\ (pc' = "returned" => result' = "panic")
            /\ (pc' = "retry_close" =>
                  cyc' = [fetches |-> 1, connects |-> 0, retryLogs |-> 1])]_vars

\* the second iteration in a row that recovered from a fetch failure has
\* written the block of its retried fetch
C8_Witness ==
    /\ pc = "flush"
    /\ cyc = [fetches |-> 2, connects |-> 1, retryLogs |-> 1]
    /\ nconn = 3
    /\ Len(dbReply) = 1
    /\ outPending = <<buf>>
    /\ outFlushed = 1

RECURSIVE SumTo(_, _)
\* f(1) + ... + f(n)
SumTo(f(_), n) == IF n = 0 THEN 0 ELSE SumTo(f, n - 1) + f(n)

\* C10: in the block render returns for the lines of a snapshot, each of
\* as many columns as the width array, every line is made of one field of
\* (width + 3) characters per column but the last, holding the column
\* left-aligned and then spaces only, followed by the last column verbatim
\* and a newline; the widths are those after the update, none below the
\* byte length of a column written.
C10_PaddedColumns ==
    pc = "write" =>
      LET n == Len(mins)
          field(i) == mins[i] + 3
          lineChars(k) == SumTo(field, n - 1) + Len(lines[k][n]) + 1
      IN /\ n >= 1
         /\ \A k \in 1..Len(lines) : Len(lines[k]) = n
         /\ Len(buf) = SumTo(lineChars, Len(lines))
         /\ \A k \in 1..Len(lines) :
              LET start == SumTo(lineChars, k - 1)
                  last == start + SumTo(field, n - 1)
              IN /\ \A i \in 1..(n - 1) :
                      LET from == start + SumTo(field, i - 1)
                          col == lines[k][i]
                      IN /\ StrLen(col) <= mins[i]
                         /\ SubSeq(buf, from + 1, from + Len(col)) = col
                         /\ \A j \in (from + Len(col) + 1)..(from + field(i)) :
                              buf[j] = " "
                 /\ SubSeq(buf, last + 1, last + Len(lines[k][n])) = lines[k][n]
                 /\ buf[last + Len(lines[k][n]) + 1] = "\n"

\* a row whose second column is three two-byte characters was rendered at
\* the tracked width of six
C10_Witness ==
    /\ pc = "write"
    /\ Len(lines) = 2
    /\ lines[2][2] = <<"U", "U", "U">>
    /\ mins[2] = 6
    /\ Len(buf) > 0

\* C11: attempt_close on a handle whose session is already closed returns at
\* once: no diagnostic is written, no error is raised, main goes on to the
\* statement after the call, and nothing but the consumed handle changes
C11_CloseOfClosedIsNoop ==
    [][(pc \in {"retry_close", "close"} /\ conn.closed /\ pc' \notin {pc, "exited"})
         => /\ closeOutcome' = "skipped"
            /\ logs' = logs
            /\ pc' = (IF pc = "retry_close" THEN "reconnect" ELSE "finish")
            /\ result' = "none" /\ errCtx' = "none" /\ exitCode' = -1
            /\ UNCHANGED <<nconn, outOpened, outPending, outFlushed, outOrder,
                           finishCalls, trailer, mins, lines, buf, chan, rxAlive,
                           cyc, loopExit, elapsed, fetchNo>>]_vars

\* attempt_close has just returned from a handle whose session was closed,
\* and nothing was logged
C11_Witness ==
    /\ closeOutcome = "skipped"
    /\ pc = "reconnect"
    /\ conn = NoConn
    /\ logs = NoLogs
    /\ result = "none"

\* the handles that were established and neither passed to attempt_close
\* nor dropped with main
LiveHandles == IF result = "none" /\ pc # "exited" THEN (1..nconn) \ closedIds ELSE {}

\* C12: main holds at most one handle; a connect is only made when no handle
\* is held and attempt_close has been called on every earlier handle; when
\* main returns Ok, attempt_close has been called on every handle
C12_OneHandleClosedBeforeReplaced ==
    /\ [](/\ conn.id \in {0, nconn}
          /\ LiveHandles \subseteq {conn.id}
          /\ Cardinality(LiveHandles) <= 1
          /\ (result = "ok" => closedIds = 1..nconn))
    /\ [][nconn' # nconn
           => /\ nconn' = nconn + 1
              /\ conn.id = 0
              /\ closedIds = 1..nconn
              /\ conn'.id = nconn']_vars

\* the run reconnected once and left the loop: both handles were closed
C12_Witness ==
    /\ pc = "exited"
    /\ exitCode = 0
    /\ nconn = 2
    /\ closedIds = {1, 2}

\* C12 as stated: whenever the process has exited, otherwise than through
\* the handler's exit(6), attempt_close has been called on every handle
C12_EveryHandleClosedAtExit ==
    (pc = "exited" /\ exitCode # 6) => closedIds = 1..nconn

\* the snapshot main holds: the lines of the latest fetch that returned Ok
Snapshot == FetchLines(conn.schema, dbReply)

\* C13: in an iteration the fetch, the render and the write follow one
\* another in that order and one at a time; what is written is the
\* rendering of the snapshot of the latest successful fetch; a fetch whose
\* block is written and flushed adds exactly one block, and the blocks lie in
\* the file in the order of their fetches
C13_FetchRenderWriteInOrder ==
    /\ [](/\ Len(outPending) <= 1
          /\ Len(outOrder) = outFlushed
          /\ \A k \in 1..Len(outOrder) : outOrder[k] = k
          /\ fetchNo - outFlushed \in {0, 1}
          /\ (pc \in {"uptime", "wait", "close", "finish"} => fetchNo = outFlushed)
          /\ (pc \in {"fetch", "retry_close", "reconnect", "refetch"}
                => lines = <<>> /\ buf = <<>> /\ outPending = <<>>)
          /\ (pc = "render" => lines = Snapshot /\ buf = <<>> /\ outPending = <<>>)
          /\ (pc = "write" => buf = RenderBuf(Snapshot, mins) /\ outPending = <<>>)
          /\ (pc = "flush" => outPending = <<RenderBuf(Snapshot, mins)>>))
    /\ [][/\ (pc' = "render" /\ pc # "render"
               => pc \in {"fetch", "refetch"} /\ fetchNo' = fetchNo + 1)
          /\ (pc' = "write" /\ pc # "write"
               => pc = "render" /\ fetchNo' = fetchNo /\ dbReply' = dbReply)
          /\ (pc' = "flush" /\ pc # "flush"
               => pc = "write" /\ outPending' = <<buf>> /\ fetchNo' = fetchNo)
          /\ (outOrder' # outOrder
               => /\ pc = "flush" /\ pc' = "uptime"
                  /\ outOrder' = Append(outOrder, fetchNo)
                  /\ outFlushed' = outFlushed + 1)
          /\ (fetchNo' # fetchNo => pc \in {"fetch", "refetch"} /\ pc' = "render")]_vars

\* two iterations have written their blocks, the second after a reconnect,
\* and a third snapshot with a row is being rendered
C13_Witness ==
    /\ outOrder = <<1, 2>>
    /\ nconn = 2
    /\ pc = "write"
    /\ fetchNo = 3
    /\ Len(dbReply) = 1

\* the statement main goes to from a statement of the loop body that returned
\* without error
NextInCycle(p) ==
    CASE p = "fetch" -> {"render", "retry_close"}
      [] p = "retry_close" -> {"reconnect"}
      [] p = "reconnect" -> {"refetch"}
      [] p = "refetch" -> {"render"}
      [] p = "render" -> {"write"}
      [] p = "write" -> {"flush"}
      [] p = "flush" -> {"uptime"}

\* C14: one interrupt that arrives while main is in the fetch (the
\* reconnect and retry included), the render or the write only posts the
\* notification; with the notification pending main goes through the rest
\* of the iteration as it would without it, the block is written and
\* flushed, and the loop is then left at the uptime check or at the poll
\* that follows, without another fetch being started
C14_InterruptDoesNotAbortCycle ==
    [][/\ (interrupts' # interrupts /\ chan = 0 /\ rxAlive /\ pc \in LoopBodyPcs
            => /\ pc' = pc
               /\ chan' = 1
               /\ exitCode' = -1
               /\ UNCHANGED <<conn, nconn, closedIds, lines, buf, mins, dbReply,
                              outPending, outFlushed, outOrder, fetchNo, cyc,
                              result, errCtx, loopExit, elapsed, rxAlive>>)
       /\ (chan = 1 /\ pc \in LoopBodyPcs /\ pc' \notin {pc, "exited"}
            => /\ chan' = 1
               /\ \/ pc' \in NextInCycle(pc) /\ result' = "none"
                  \/ pc' = "returned" /\ result' \in {"err", "panic"})
       /\ (chan = 1 /\ pc = "write" /\ pc' = "flush" => outPending' = <<buf>>)
       /\ (chan = 1 /\ pc = "flush" /\ pc' = "uptime"
            => outFlushed' = outFlushed + 1 /\ outPending' = <<>>)
       /\ (chan = 1 /\ pc = "uptime" /\ pc' # pc => pc' \in {"close", "wait", "exited"})
       /\ (chan = 1 /\ pc = "wait" /\ pc' # pc
            => \/ pc' = "close" /\ loopExit' = "shutdown" /\ chan' = 0
               \/ pc' = "exited")
       /\ (chan = 1 /\ pc' = "fetch" => pc = "fetch")]_vars

\* the only interrupt of the run came while the first iteration was in its
\* fetch, reconnect, retry, render or write, and the block of that iteration
\* has been written
C14_Witness ==
    /\ pc = "flush"
    /\ interrupts = 1
    /\ chan = 1
    /\ cyc.fetches = 2
    /\ outFlushed = 0
    /\ outPending = <<RenderBuf(Snapshot, mins)>>
    /\ result = "none"

\* C15: an error of close is logged and nothing more: the call returns to
\* main in the state a successful close leaves, the log line apart.  After it on the recovery path the
\* connect of line 194 is made and, when that returns a handle, the fetch of
\* line 195; after it on the exit path do_finish is called, and when
\* do_finish returns Ok the trailer is written, main returns Ok and the exit
\* code is 0
C15_CloseErrorNotFatal ==
    /\ [][/\ (closeOutcome' = "error" /\ closeOutcome # "error"
               => /\ pc \in {"retry_close", "close"}
                  /\ pc' = (IF pc = "retry_close" THEN "reconnect" ELSE "finish")
                  /\ logs' = [logs EXCEPT !.closeErr = @ + 1]
                  /\ result' = "none" /\ errCtx' = "none" /\ exitCode' = -1
                  /\ conn' = NoConn
                  /\ closedIds' = closedIds \cup {conn.id}
                  /\ UNCHANGED <<nconn, outOpened, outPending, outFlushed, outOrder,
                                 finishCalls, trailer, mins, lines, buf, chan,
                                 rxAlive, cyc, loopExit, elapsed, fetchNo, dbReply,
                                 installed, interrupts, cfg>>)
          /\ (closeOutcome = "error" /\ pc = "reconnect" /\ pc' \notin {pc, "exited"}
               => /\ cyc'.connects = cyc.connects + 1
                  /\ \/ pc' = "refetch" /\ nconn' = nconn + 1
                     \/ pc' = "returned" /\ errCtx' = "reconnecting after fetch error")
          /\ (pc = "refetch" /\ pc' \notin {pc, "exited"}
               => cyc'.fetches = 2)
          /\ (closeOutcome = "error" /\ pc = "finish" /\ pc' \notin {pc, "exited"}
               => /\ finishCalls' = finishCalls + 1
                  /\ pc' = "returned"
                  /\ \/ result' = "ok" /\ trailer' /\ logs'.cleanExit = 1
                     \/ /\ result' = "err"
                        /\ errCtx' = "finalising output file during clean exit")]_vars
    /\ [](pc = "exited" /\ result = "ok" /\ logs.closeErr > 0
           => exitCode \in {0, 6} /\ trailer /\ errCtx = "none")

\* close failed on the recovery path and again when the loop was left; the
\* retried fetch was made, the stream was finalized and the exit code is 0
C15_Witness ==
    /\ pc = "exited"
    /\ exitCode = 0
    /\ logs.closeErr = 2
    /\ nconn = 2
    /\ closedIds = {1, 2}
    /\ trailer
    /\ outFlushed >= 1

\* the largest element of a non-empty finite set of numbers
MaxOf(S) == CHOOSE x \in S : \A y \in S : y <= x

\* C16: the width render leaves for a column is the largest of the width
\* before the call and the byte lengths of that column in every line of the
\* snapshot, the header line among them; the lines are padded only after
\* that: the header line, the first one measured, is already laid out with
\* the widths the rows after it have produced
C16_WidthsAreColumnMaxima ==
    [][(pc = "render" /\ pc' = "write")
         => /\ Len(lines) >= 1
            /\ lines[1] = [i \in 1..NCols |-> ColumnNames[i]]
            /\ Len(mins') = Len(mins)
            /\ \A i \in 1..Len(mins) :
                 mins'[i] = MaxOf({mins[i]} \cup {StrLen(lines[k][i]) : k \in 1..Len(lines)})
            /\ LET w == mins'[1] + 3
                   name == lines[1][1]
               IN /\ SubSeq(buf', 1, Len(name)) = name
                  /\ \A j \in (Len(name) + 1)..w : buf'[j] = " "
                  /\ SubSeq(buf', w + 1, w + Len(lines[1][2])) = lines[1][2]]_vars

\* the first snapshot has been rendered: the header gave the width of the
\* first and the third column, the row that of the second, six bytes in
\* three characters
C16_Witness ==
    /\ pc = "write"
    /\ fetchNo = 1
    /\ Len(lines) = 2
    /\ mins = <<3, 6, 5>>
    /\ CharCount(lines[2][2]) = 3

\* the statement of the handle main holds has a column of a type that the
\* match of fetch has no arm for
UnsupportedColumn ==
    /\ conn.id # 0
    /\ \E i \in 1..Len(conn.schema) : conn.schema[i] \notin SupportedTypes

\* C17, amended: with a column of an unsupported type a fetch that gets at
\* least one row panics: main ends there, without attempt_close, connect or
\* another fetch, without do_finish, and nothing of that snapshot is
\* written.  A fetch that gets no row returns the header alone, which is
\* rendered and written like any snapshot; a query error takes the
\* recovery path as usual
C17_UnknownTypeFatalOnRow ==
    /\ [][(pc \in {"fetch", "refetch"} /\ UnsupportedColumn /\ pc' \notin {pc, "exited"})
            => \/ /\ pc' = "returned"
                  /\ result' = "panic"
                  /\ errCtx' = "unknown type"
                  /\ UNCHANGED <<nconn, closedIds, logs, outPending, outFlushed,
                                 outOrder, finishCalls, trailer, fetchNo>>
               \/ /\ pc' = "render"
                  /\ dbReply' = <<>>
                  /\ lines' = <<[i \in 1..NCols |-> ColumnNames[i]]>>
               \/ pc = "fetch" /\ pc' = "retry_close" /\ cyc'.retryLogs = 1
               \/ /\ pc = "refetch" /\ pc' = "returned"
                  /\ result' = "err" /\ errCtx' = "fetch after reconnection"]_vars
    /\ [][result = "panic" /\ errCtx = "unknown type"
            => UNCHANGED <<nconn, closedIds, cyc, outPending, outFlushed, outOrder,
                           finishCalls, trailer, fetchNo>>]_vars
    /\ [](result = "panic" /\ errCtx = "unknown type"
            => /\ outPending = <<>> /\ lines = <<>> /\ buf = <<>>
               /\ finishCalls = 0 /\ ~trailer
               /\ nconn \notin closedIds
               /\ fetchNo = outFlushed
               /\ exitCode \in {-1, 101, 6})
    /\ [](pc \in {"render", "write", "flush"} /\ Len(dbReply) >= 1 => ~UnsupportedColumn)

\* on a statement with a column of type bool a fetch without rows had its
\* header written, and a later fetch got a row and ended the process
C17_Witness ==
    /\ pc = "exited"
    /\ exitCode = 101
    /\ errCtx = "unknown type"
    /\ outFlushed = 1
    /\ nconn = 1

\* C17 as stated: while main holds a handle whose statement has a column of
\* an unsupported type, no fetch has returned a snapshot for rendering and no
\* block of one is written
C17_UnknownTypeAlwaysFatal ==
    UnsupportedColumn => pc \in {"open", "install", "fetch", "retry_close", "refetch"}

\* C18: an interrupt handled while the channel is empty and the Receiver
\* exists, the first of the run wherever main is as well as one that comes
\* after an earlier notification was received, posts one notification and
\* does nothing else: the process goes on running, and the poll that finds
\* the notification leaves the loop for the close and the finish.  The
\* handler exits with code 6 only from a full channel or a dropped Receiver
C18_EmptyChannelInterruptOnlyNotifies ==
    /\ [][(interrupts' # interrupts /\ chan = 0 /\ rxAlive)
            => /\ pc' = pc
               /\ exitCode' = -1
               /\ chan' = 1
               /\ logs' = [logs EXCEPT !.started = @ + 1]
               /\ UNCHANGED <<conn, nconn, closedIds, elapsed, outOpened, outPending,
                              outFlushed, outOrder, finishCalls, trailer, mins, lines,
                              buf, rxAlive, cyc, loopExit, result, errCtx, dbReply,
                              fetchNo, closeOutcome>>]_vars
    /\ [][(exitCode' = 6 /\ exitCode # 6)
            => /\ interrupts' = interrupts + 1
               /\ chan = 1 \/ ~rxAlive
               /\ logs'.dying = 1]_vars
    /\ [][(chan = 1 /\ pc = "wait" /\ pc' \notin {pc, "exited"})
            => pc' = "close" /\ loopExit' = "shutdown" /\ chan' = 0]_vars
    /\ [](chan \in {0, 1} /\ (exitCode = 6 => interrupts >= 1 /\ logs.dying = 1))

\* two interrupts each found the channel empty, the second after the poll
\* had received the first; the process was not killed and has exited with 0
C18_Witness ==
    /\ pc = "exited"
    /\ exitCode = 0
    /\ interrupts = 2
    /\ logs.started = 2
    /\ logs.dying = 0
    /\ chan = 1

\* C19: the uptime check is reached only from a flush that has put a block
\* into the file and the poll only from the uptime check, so a run that
\* exits with code 0 has written at least one block; every block handed to
\* the stream begins with the complete header line and ends with a newline
C19_ExitZeroHasBlock ==
    /\ [](/\ (pc \in {"uptime", "wait", "close", "finish"}
                => outFlushed >= 1 /\ outPending = <<>>)
          /\ (loopExit # "none" => outFlushed >= 1)
          /\ (result = "ok" \/ exitCode = 0 => outFlushed >= 1 /\ outOrder[1] = 1))
    /\ [][/\ (pc' = "uptime" /\ pc # "uptime"
               => pc = "flush" /\ outFlushed' = outFlushed + 1 /\ Len(outPending) = 1)
          /\ (pc' = "wait" /\ pc # "wait" => pc = "uptime")
          /\ (loopExit' # loopExit => pc \in {"uptime", "wait"})
          /\ (outPending' # outPending /\ outPending' # <<>>
               => LET block == outPending'[Len(outPending')]
                      header == RenderLine([i \in 1..NCols |-> ColumnNames[i]], mins)
                  IN /\ Len(block) >= Len(header)
                     /\ SubSeq(block, 1, Len(header)) = header
                     /\ header[Len(header)] = "\n"
                     /\ block[Len(block)] = "\n")]_vars

\* no interrupt came; the first iteration took longer than max_uptime, its
\* block was written and the run ended with code 0
C19_Witness ==
    /\ pc = "exited"
    /\ exitCode = 0
    /\ interrupts = 0
    /\ loopExit = "uptime"
    /\ outOrder = <<1>>
    /\ elapsed > cfg.max_uptime

====
